---- MODULE Spec2Model ----
(***************************************************************************)
(* Model of app.py: one Streamlit script run of main() over an uploaded    *)
(* CSV file, and of create_pdf_with_charts().                              *)
(*                                                                         *)
(* Text is modelled as a sequence of characters.  TLA+ strings are ASCII,  *)
(* so every Hangul syllable of the source is written as its romanisation   *)
(* and stands for ONE character:                                           *)
(*   '처방의사' = <<"cheo","bang","ui","sa">>   '조제일' = <<"jo","je","il">> *)
(*   '합계' = "hapgye"                          '기타' = "gita"              *)
(* A cell of the table is a whole value (a prescriber identity, a date,    *)
(* the marker "hapgye", or NaN for an empty cell).                         *)
(***************************************************************************)
EXTENDS Integers, Sequences, FiniteSets, TLC

VARIABLES
    file,             \* the uploaded file (uploaded_file); fixed during the run
    pc,               \* position of the script run
    df,               \* the DataFrame df: [bound, columns, rows]
    df_counts_final,  \* the final report table: [bound, rows]
    displayed,        \* st.dataframe(df_counts_final) was reached
    charts,           \* fig_bar / fig_pie were built and shown
    errors,           \* the st.error(...) messages reported, in order
    reads,            \* the encodings pd.read_csv was called with, in order
    stages,           \* the export stages attempted, in order
    failed,           \* the export stage that raised, or "none"
    pdf_bytes,        \* result of create_pdf_with_charts: "unset", "None", "bytes"
    download,         \* st.download_button was offered
    saved,            \* st.success of the CSV save was reported
    written,          \* the paths df_counts_final.to_csv wrote, in order
    made,             \* the directories os.makedirs created, in order
    fs,               \* the temporary image files that exist in the working directory
    unhandled         \* the exception that escaped main(), or "none"

vars == <<file, pc, df, df_counts_final, displayed, charts, errors, reads,
          stages, failed, pdf_bytes, download, saved, written, made, fs, unhandled>>

(***************************************************************************)
(* Bounds of the input family.                                             *)
(***************************************************************************)
NumIds == 12      \* distinct prescriber identities 1..NumIds a file may use
MaxExtra == 2     \* extra data rows appended to the base rows of a file

(***************************************************************************)
(* Values.                                                                 *)
(***************************************************************************)
NaN == -1                         \* an empty prescriber cell, as pandas reads it
NoDf == [bound |-> FALSE, columns |-> <<>>, rows |-> <<>>]     \* df not assigned yet
NoTable == [bound |-> FALSE, rows |-> <<>>]                   \* df_counts_final not assigned
HAPGYE == "hapgye"                \* the literal '합계'
GITA == 0                         \* the identity '기타' (identities are numbers)
ADATE == "2024-01-05"             \* some dispensing date

COL_JOJEIL == <<"jo", "je", "il">>                \* '조제일'
COL_CHEOBANGUISA == <<"cheo", "bang", "ui", "sa">> \* '처방의사'

TopN == 10

(***************************************************************************)
(* Generic sequence helpers.                                               *)
(***************************************************************************)
Range(s) == {s[i] : i \in 1..Len(s)}

RECURSIVE SumSeq(_)
SumSeq(s) == IF s = <<>> THEN 0 ELSE Head(s) + SumSeq(Tail(s))

RECURSIVE SeqsUpTo(_, _)
SeqsUpTo(S, n) ==
    IF n = 0 THEN {<<>>}
    ELSE LET shorter == SeqsUpTo(S, n - 1)
         IN  shorter \cup {Append(s, x) : s \in {t \in shorter : Len(t) = n - 1}, x \in S}

(***************************************************************************)
(* Header normalisation, lines 35-42.                                      *)
(***************************************************************************)
\* str.replace(ch, ''): every occurrence of ch removed
RECURSIVE StrReplace(_, _)
StrReplace(s, ch) ==
    IF s = <<>> THEN <<>>
    ELSE IF Head(s) = ch THEN StrReplace(Tail(s), ch)
         ELSE <<Head(s)>> \o StrReplace(Tail(s), ch)

\* the characters Python's str.strip() removes (those a label of the model can hold)
Whitespace == {" ", "\t", "\n", "\r", "\f"}

RECURSIVE LStrip(_)
LStrip(s) == IF s # <<>> /\ Head(s) \in Whitespace THEN LStrip(Tail(s)) ELSE s

RECURSIVE RStrip(_)
RStrip(s) ==
    IF s # <<>> /\ s[Len(s)] \in Whitespace THEN RStrip(SubSeq(s, 1, Len(s) - 1)) ELSE s

StrStrip(s) == RStrip(LStrip(s))

NormalizeLabel(label) ==
    StrReplace(StrStrip(StrReplace(StrReplace(StrReplace(label, "\n"), "\r"), "\t")), " ")

NormalizeColumns(columns) == [i \in 1..Len(columns) |-> NormalizeLabel(columns[i])]

\* position of a column label, 0 when absent ('x' in df.columns)
ColumnIndex(columns, name) ==
    IF \E i \in 1..Len(columns) : columns[i] = name
    THEN CHOOSE i \in 1..Len(columns) : columns[i] = name
    ELSE 0

(***************************************************************************)
(* The input family.  A file is [enc, malformed, lines]: lines[1] is the   *)
(* preamble row, lines[2] the header row, the rest are data rows           *)
(* <<date cell, prescriber cell>>.  Prescriber identities are the numbers  *)
(* 1..NumIds, compared as pandas compares the names; GITA is the name      *)
(* '기타' used by a real prescriber; NaN is an empty cell.                   *)
(***************************************************************************)
PREAMBLE == <<"report", "title">>

H_clean == <<COL_JOJEIL, COL_CHEOBANGUISA>>
H_dirty == << <<" ", "jo", "je", "\n", "il", "\t">>,
              <<"\f", "cheo", "bang", " ", "ui", "sa", "\r", " ">> >>
H_nodate == << <<"nal", "jja">>, <<"cheo", "bang", "ui", "sa", "\n">> >>
H_nodoc == << COL_JOJEIL, <<"ui", "sa">> >>
H_formfeed == << COL_JOJEIL, <<"cheo", "bang", "\f", "ui", "sa">> >>
Headers == {H_clean, H_dirty, H_nodate, H_nodoc, H_formfeed}

\* base rows: k prescribers, each once ("flat") or prescriber i in i rows ("ramp")
RECURSIVE BaseRows(_, _)
BaseRows(shape, k) ==
    IF k = 0 THEN <<>>
    ELSE BaseRows(shape, k - 1) \o
         [j \in 1..(IF shape = "ramp" THEN k ELSE 1) |-> <<ADATE, k>>]

\* extra rows: a dated row of a prescriber, of '기타' or with an empty cell; a
\* '합계' row with an empty or a filled prescriber cell
ExtraKinds ==
    {<<ADATE, p>> : p \in {NaN, GITA, 1, NumIds}} \cup {<<HAPGYE, p>> : p \in {NaN, 1}}
Extras == SeqsUpTo(ExtraKinds, MaxExtra)

RichRows == {BaseRows(shape, k) \o e : shape \in {"flat", "ramp"}, k \in 0..NumIds, e \in Extras}
SmallRows == {BaseRows("flat", k) \o e : k \in 0..1, e \in SeqsUpTo(ExtraKinds, 1)}

Encodings == {"utf-8-sig", "euc-kr", "utf-16"}

RichFiles ==
    {[enc |-> "utf-8-sig", malformed |-> FALSE, lines |-> <<PREAMBLE, h>> \o r] :
        h \in {H_dirty}, r \in RichRows}
SmallFiles ==
    {[enc |-> e, malformed |-> m, lines |-> <<PREAMBLE, h>> \o r] :
        e \in Encodings, m \in BOOLEAN, h \in Headers, r \in SmallRows}
    \cup {[enc |-> e, malformed |-> FALSE, lines |-> <<PREAMBLE>>] : e \in Encodings}
Files == RichFiles \cup SmallFiles

BAR_TMP == "bar_tmp.png"
PIE_TMP == "pie_tmp.png"

Init ==
    /\ file \in Files
    /\ fs = {}
    /\ pc = "start"
    /\ df = NoDf
    /\ df_counts_final = NoTable
    /\ displayed = FALSE
    /\ charts = FALSE
    /\ errors = <<>>
    /\ reads = <<>>
    /\ stages = <<>>
    /\ failed = "none"
    /\ pdf_bytes = "unset"
    /\ download = FALSE
    /\ saved = FALSE
    /\ written = <<>>
    /\ made = <<>>
    /\ unhandled = "none"

(***************************************************************************)
(* 1) CSV read, lines 25-32.                                               *)
(***************************************************************************)
\* pd.read_csv(uploaded_file, skiprows=1, encoding=...): what the call does on f
ReadOutcome(f, encoding) ==
    IF f.enc # encoding THEN "UnicodeDecodeError"
    ELSE IF Len(f.lines) < 2 THEN "EmptyDataError"
    ELSE IF f.malformed THEN "ParserError"
    ELSE "ok"

\* the DataFrame of a successful read: first row skipped, second row is the header
ReadCsv(f) ==
    [bound |-> TRUE, columns |-> f.lines[2], rows |-> SubSeq(f.lines, 3, Len(f.lines))]

ReadFirst ==
    /\ pc = "start"
    /\ reads' = Append(reads, "utf-8-sig")
    /\ LET r == ReadOutcome(file, "utf-8-sig") IN
         CASE r = "ok" ->
                /\ df' = ReadCsv(file)
                /\ pc' = "loaded"
                /\ UNCHANGED errors
           [] r = "UnicodeDecodeError" ->
                /\ pc' = "fallback"
                /\ UNCHANGED <<df, errors>>
           [] OTHER ->
                /\ errors' = Append(errors, "csv_read_failed")
                /\ pc' = "returned"
                /\ UNCHANGED df
    /\ UNCHANGED <<file, df_counts_final, displayed, charts, stages, failed,
                   pdf_bytes, download, saved, written, made, fs, unhandled>>

\* line 28 runs inside the 'except UnicodeDecodeError' handler: the sibling
\* 'except Exception' clause does not cover it
ReadFallback ==
    /\ pc = "fallback"
    /\ reads' = Append(reads, "euc-kr")
    /\ LET r == ReadOutcome(file, "euc-kr") IN
         IF r = "ok"
         THEN /\ df' = ReadCsv(file)
              /\ pc' = "loaded"
              /\ UNCHANGED unhandled
         ELSE /\ unhandled' = r
              /\ pc' = "crashed"
              /\ UNCHANGED df
    /\ UNCHANGED <<file, df_counts_final, displayed, charts, errors, stages, failed,
                   pdf_bytes, download, saved, written, made, fs>>

(***************************************************************************)
(* Column clean-up, '합계' filter and schema check, lines 34-51.             *)
(***************************************************************************)
\* df[df['조제일'] != '합계']
RECURSIVE DropHapgye(_, _)
DropHapgye(rows, c) ==
    IF rows = <<>> THEN <<>>
    ELSE IF Head(rows)[c] # HAPGYE
         THEN <<Head(rows)>> \o DropHapgye(Tail(rows), c)
         ELSE DropHapgye(Tail(rows), c)

\* Prepare without the return of line 51
PrepareNoReturn ==
    /\ pc = "loaded"
    /\ LET columns == NormalizeColumns(df.columns)
           c == ColumnIndex(columns, COL_JOJEIL)
           rows == IF c # 0 THEN DropHapgye(df.rows, c) ELSE df.rows
       IN  /\ df' = [bound |-> TRUE, columns |-> columns, rows |-> rows]
           /\ errors' = IF ColumnIndex(columns, COL_CHEOBANGUISA) = 0
                        THEN Append(errors, "no_cheobanguisa_column") ELSE errors
           /\ pc' = "clean"
    /\ UNCHANGED <<file, df_counts_final, displayed, charts, reads, stages, failed,
                   pdf_bytes, download, saved, written, made, fs, unhandled>>

Prepare ==
    /\ pc = "loaded"
    /\ LET columns == NormalizeColumns(df.columns)
           c == ColumnIndex(columns, COL_JOJEIL)
           rows == IF c # 0 THEN DropHapgye(df.rows, c) ELSE df.rows
       IN  /\ df' = [bound |-> TRUE, columns |-> columns, rows |-> rows]
           /\ IF ColumnIndex(columns, COL_CHEOBANGUISA) = 0
              THEN /\ errors' = Append(errors, "no_cheobanguisa_column")
                   /\ pc' = "returned"
              ELSE /\ pc' = "clean"
                   /\ UNCHANGED errors
    /\ UNCHANGED <<file, df_counts_final, displayed, charts, reads, stages, failed,
                   pdf_bytes, download, saved, written, made, fs, unhandled>>

(***************************************************************************)
(* 2) Counts per prescriber, shares, top 10 + '기타', lines 53-77.           *)
(***************************************************************************)
\* exact rationals [num, den], den > 0, in lowest terms
RECURSIVE GCD(_, _)
GCD(a, b) == IF b = 0 THEN a ELSE GCD(b, a % b)

Rat(n, d) == LET g == GCD(n, d) IN [num |-> n \div g, den |-> d \div g]
RatAdd(a, b) == Rat(a.num * b.den + b.num * a.den, a.den * b.den)
RatZero == [num |-> 0, den |-> 1]

RECURSIVE RatSum(_)
RatSum(s) == IF s = <<>> THEN RatZero ELSE RatAdd(Head(s), RatSum(Tail(s)))

\* the group keys of groupby: the distinct non-NaN values, in ascending order
GroupKeys(rows, c) == {rows[i][c] : i \in 1..Len(rows)} \ {NaN}

RECURSIVE Ascending(_)
Ascending(S) ==
    IF S = {} THEN <<>>
    ELSE LET m == CHOOSE x \in S : \A y \in S : x <= y
         IN  <<m>> \o Ascending(S \ {m})

\* df.groupby('처방의사')['처방의사'].count().rename("조제건수").reset_index()
GroupCount(rows, c) ==
    LET keys == Ascending(GroupKeys(rows, c))
    IN  [k \in 1..Len(keys) |->
            [cheobanguisa |-> keys[k],
             jojegeonsu |-> Cardinality({i \in 1..Len(rows) : rows[i][c] = keys[k]})]]

\* sort_values(by='조제건수', ascending=False).  The default sort kind is not
\* stable: rows of equal count come out in an order the build decides; tie says
\* whether they keep their order ("keep") or come out reversed ("reverse").
TieOrders == {"keep", "reverse"}

\* sort_values with ascending=True
SortValuesAscending(t, tie) ==
    LET n == Len(t)
        Before(i, j) ==
            \/ t[i].jojegeonsu < t[j].jojegeonsu
            \/ /\ t[i].jojegeonsu = t[j].jojegeonsu
               /\ IF tie = "keep" THEN i < j ELSE i > j
        rank(i) == Cardinality({j \in 1..n : Before(j, i)}) + 1
    IN  [r \in 1..n |-> t[CHOOSE i \in 1..n : rank(i) = r]]

SortValues(t, tie) ==
    LET n == Len(t)
        Before(i, j) ==
            \/ t[i].jojegeonsu > t[j].jojegeonsu
            \/ /\ t[i].jojegeonsu = t[j].jojegeonsu
               /\ IF tie = "keep" THEN i < j ELSE i > j
        rank(i) == Cardinality({j \in 1..n : Before(j, i)}) + 1
    IN  [r \in 1..n |-> t[CHOOSE i \in 1..n : rank(i) = r]]

\* df_counts["조제건수"].sum()
TotalCount(t) == SumSeq([i \in 1..Len(t) |-> t[i].jojegeonsu])

\* df_counts["점유율(%)"] = df_counts["조제건수"] / total_count * 100
\* (elementwise: an empty column divides nothing)
WithShare(t) ==
    LET total_count == TotalCount(t)
    IN  [i \in 1..Len(t) |->
            [cheobanguisa |-> t[i].cheobanguisa,
             jojegeonsu |-> t[i].jojegeonsu,
             jeomyuyul |-> Rat(t[i].jojegeonsu * 100, total_count)]]

\* lines 63-77 with the test len(df_counts) >= 10
Top10PlusGitaAtTen(df_counts) ==
    IF Len(df_counts) >= TopN
    THEN LET df_top10 == SubSeq(df_counts, 1, TopN)
             df_rest == SubSeq(df_counts, TopN + 1, Len(df_counts))
             rest_count == SumSeq([i \in 1..Len(df_rest) |-> df_rest[i].jojegeonsu])
             rest_ratio == RatSum([i \in 1..Len(df_rest) |-> df_rest[i].jeomyuyul])
             df_etc == [cheobanguisa |-> GITA, jojegeonsu |-> rest_count,
                        jeomyuyul |-> rest_ratio]
         IN  Append(df_top10, df_etc)
    ELSE df_counts

\* lines 63-77
Top10PlusGita(df_counts) ==
    IF Len(df_counts) > TopN
    THEN LET df_top10 == SubSeq(df_counts, 1, TopN)
             df_rest == SubSeq(df_counts, TopN + 1, Len(df_counts))
             rest_count == SumSeq([i \in 1..Len(df_rest) |-> df_rest[i].jojegeonsu])
             rest_ratio == RatSum([i \in 1..Len(df_rest) |-> df_rest[i].jeomyuyul])
             df_etc == [cheobanguisa |-> GITA, jojegeonsu |-> rest_count,
                        jeomyuyul |-> rest_ratio]
         IN  Append(df_top10, df_etc)
    ELSE df_counts

\* lines 53-61: the sorted aggregate with its shares
DfCounts(d, tie) ==
    WithShare(SortValues(GroupCount(d.rows, ColumnIndex(d.columns, COL_CHEOBANGUISA)), tie))

Aggregate ==
    /\ pc = "clean"
    /\ \E tie \in TieOrders :
         df_counts_final' = [bound |-> TRUE, rows |-> Top10PlusGita(DfCounts(df, tie))]
    /\ pc' = "aggregated"
    /\ UNCHANGED <<file, df, displayed, charts, errors, reads, stages, failed,
                   pdf_bytes, download, saved, written, made, fs, unhandled>>

\* lines 79-108: the table and the two charts are shown
Display ==
    /\ pc = "aggregated"
    /\ displayed' = TRUE
    /\ charts' = TRUE
    /\ pc' = "shown"
    /\ UNCHANGED <<file, df, df_counts_final, errors, reads, stages, failed,
                   pdf_bytes, download, saved, written, made, fs, unhandled>>

(***************************************************************************)
(* 4) PDF export: the button (lines 113-125) and create_pdf_with_charts    *)
(* (lines 144-210).  The four stages: fig_bar.to_image, fig_pie.to_image,  *)
(* the FPDF document with the two temporary image files, pdf.output.       *)
(***************************************************************************)
Stages == <<"rasterize-bar", "rasterize-pie", "assemble", "serialize">>

\* the st.error message of the except clause that covers a stage
ExceptMessage ==
    ("rasterize-bar" :> "bar_png_failed") @@
    ("rasterize-pie" :> "pie_png_failed") @@
    ("assemble" :> "pdf_failed") @@
    ("serialize" :> "pdf_failed")

\* st.button("PDF 생성")
PdfButton ==
    /\ pc = "shown"
    /\ \E pressed \in BOOLEAN : pc' = IF pressed THEN "pdf_bar" ELSE "csv"
    /\ UNCHANGED <<file, df, df_counts_final, displayed, charts, errors, reads, stages,
                   failed, pdf_bytes, download, saved, written, made, fs, unhandled>>

\* an except clause of create_pdf_with_charts: report and return None
Raise(stage) ==
    /\ errors' = Append(errors, ExceptMessage[stage])
    /\ failed' = stage
    /\ pdf_bytes' = "None"
    /\ pc' = "pdf_returned"

\* lines 154-162 without the return of line 162
RasterizeBarNoReturn ==
    /\ pc = "pdf_bar"
    /\ stages' = Append(stages, "rasterize-bar")
    /\ pc' = "pdf_pie"
    /\ \E ok \in BOOLEAN :
         IF ok THEN UNCHANGED <<errors, failed, pdf_bytes>>
         ELSE /\ errors' = Append(errors, ExceptMessage["rasterize-bar"])
              /\ failed' = "rasterize-bar"
              /\ pdf_bytes' = "None"
    /\ UNCHANGED <<file, df, df_counts_final, displayed, charts, reads,
                   download, saved, written, made, fs, unhandled>>

\* lines 154-162
RasterizeBar ==
    /\ pc = "pdf_bar"
    /\ stages' = Append(stages, "rasterize-bar")
    /\ \E ok \in BOOLEAN :
         IF ok THEN pc' = "pdf_pie" /\ UNCHANGED <<errors, failed, pdf_bytes>>
         ELSE Raise("rasterize-bar")
    /\ UNCHANGED <<file, df, df_counts_final, displayed, charts, reads,
                   download, saved, written, made, fs, unhandled>>

\* lines 164-172
RasterizePie ==
    /\ pc = "pdf_pie"
    /\ stages' = Append(stages, "rasterize-pie")
    /\ \E ok \in BOOLEAN :
         IF ok THEN pc' = "pdf_assemble" /\ UNCHANGED <<errors, failed, pdf_bytes>>
         ELSE Raise("rasterize-pie")
    /\ UNCHANGED <<file, df, df_counts_final, displayed, charts, reads,
                   download, saved, written, made, fs, unhandled>>

\* the statements of lines 176-199 that can raise, in order, and the temporary
\* files that exist once the statement has been reached and has raised
AssembleSteps == <<"fpdf", "open_bar", "write_bar", "image_bar", "open_pie", "write_pie", "image_pie">>

TmpFilesAt(step) ==
    CASE step \in {"fpdf", "open_bar"} -> {}
      [] step \in {"write_bar", "image_bar", "open_pie"} -> {BAR_TMP}
      [] OTHER -> {BAR_TMP, PIE_TMP}

\* lines 174-199; neither file is removed on any path
Assemble ==
    /\ pc = "pdf_assemble"
    /\ stages' = Append(stages, "assemble")
    /\ \/ /\ fs' = fs \cup {BAR_TMP, PIE_TMP}
          /\ pc' = "pdf_serialize"
          /\ UNCHANGED <<errors, failed, pdf_bytes>>
       \/ \E k \in 1..Len(AssembleSteps) :
            /\ fs' = fs \cup TmpFilesAt(AssembleSteps[k])
            /\ Raise("assemble")
    /\ UNCHANGED <<file, df, df_counts_final, displayed, charts, reads,
                   download, saved, written, made, unhandled>>

\* lines 201-210
Serialize ==
    /\ pc = "pdf_serialize"
    /\ stages' = Append(stages, "serialize")
    /\ \E ok \in BOOLEAN :
         IF ok THEN /\ pdf_bytes' = "bytes"
                    /\ pc' = "pdf_returned"
                    /\ UNCHANGED <<errors, failed>>
         ELSE Raise("serialize")
    /\ UNCHANGED <<file, df, df_counts_final, displayed, charts, reads,
                   download, saved, written, made, fs, unhandled>>

\* lines 116-125
PdfResult ==
    /\ pc = "pdf_returned"
    /\ IF pdf_bytes # "None"
       THEN download' = TRUE /\ UNCHANGED errors
       ELSE errors' = Append(errors, "pdf_generation_failed") /\ UNCHANGED download
    /\ pc' = "csv"
    /\ UNCHANGED <<file, df, df_counts_final, displayed, charts, reads, stages, failed,
                   pdf_bytes, saved, written, made, fs, unhandled>>

(***************************************************************************)
(* 5) CSV save, lines 127-141.                                             *)
(***************************************************************************)
\* the module names bound by the import statements, lines 1-5
Imports == {"st", "pd", "px", "FPDF", "traceback"}

Paths == { <<>>, <<" ", " ">>,
           <<"r", ".", "c", "s", "v">>,
           <<"o", "u", "t", "/", "r", ".", "c", "s", "v">>,
           <<"n", "e", "w", "/", "r", ".", "c", "s", "v">> }
ExistingDirs == { <<"o", "u", "t">> }

\* os.path.dirname
RECURSIVE Dirname(_)
Dirname(path) ==
    IF path = <<>> THEN <<>>
    ELSE IF path[Len(path)] = "/" THEN SubSeq(path, 1, Len(path) - 1)
         ELSE Dirname(SubSeq(path, 1, Len(path) - 1))

\* st.text_input and st.button("CSV 저장"); a script run is started by one
\* widget, so this button is not pressed in the run the PDF button started
SaveCsv ==
    /\ pc = "csv"
    /\ \E save_path \in Paths, pressed \in BOOLEAN :
         /\ pressed => stages = <<>>
         /\ IF ~pressed
            THEN /\ pc' = "done"
                 /\ UNCHANGED <<errors, saved, written, made, unhandled>>
            ELSE IF StrStrip(save_path) = <<>>
            THEN /\ errors' = Append(errors, "enter_save_path")
                 /\ pc' = "done"
                 /\ UNCHANGED <<saved, written, made, unhandled>>
            ELSE IF "os" \notin Imports
            THEN \* line 136: the name os is not bound
                 /\ unhandled' = "NameError"
                 /\ pc' = "crashed"
                 /\ UNCHANGED <<errors, saved, written, made>>
            ELSE LET dir_name == Dirname(save_path)
                     mk == dir_name # <<>> /\ dir_name \notin ExistingDirs
                 IN  \E r \in {"ok", "makedirs_OSError", "to_csv_OSError"} :
                       /\ r = "makedirs_OSError" => mk
                       /\ made' = IF mk /\ r # "makedirs_OSError"
                                  THEN Append(made, dir_name) ELSE made
                       /\ written' = IF r = "ok" THEN Append(written, save_path) ELSE written
                       /\ saved' = (r = "ok")
                       /\ unhandled' = IF r = "ok" THEN "none" ELSE "OSError"
                       /\ pc' = IF r = "ok" THEN "done" ELSE "crashed"
                       /\ UNCHANGED errors
    /\ UNCHANGED <<file, df, df_counts_final, displayed, charts, reads, stages, failed,
                   pdf_bytes, download, fs>>

Next ==
    \/ ReadFirst \/ ReadFallback \/ Prepare \/ Aggregate \/ Display
    \/ PdfButton \/ RasterizeBar \/ RasterizePie \/ Assemble \/ Serialize \/ PdfResult
    \/ SaveCsv

Spec == Init /\ [][Next]_vars

(***************************************************************************)
(* Properties.                                                             *)
(***************************************************************************)
Final == df_counts_final.rows
Counts == [i \in 1..Len(Final) |-> Final[i].jojegeonsu]
Shares == [i \in 1..Len(Final) |-> Final[i].jeomyuyul]

\* the script run has passed the schema check of lines 49-51
Cleaned == pc \notin {"start", "fallback", "loaded"} /\ df.bound

\* the prescriber cells of the rows that survived the '합계' filter
DocCells ==
    LET c == ColumnIndex(df.columns, COL_CHEOBANGUISA)
    IN  [i \in 1..Len(df.rows) |-> df.rows[i][c]]
DistinctIds == Range(DocCells) \ {NaN}

\* C1: the counts of the final report table add up to the number of rows that
\* survived normalisation, rows with an empty prescriber cell included.
CE_C1 == df_counts_final.bound => SumSeq(Counts) = Len(df.rows)

\* C2: with at least one surviving row, the shares of the final report table
\* add up to exactly 100.
CE_C2 ==
    (df_counts_final.bound /\ Len(df.rows) >= 1) => RatSum(Shares) = [num |-> 100, den |-> 1]

\* C3: the final report table has at most 11 rows; it has 11 rows exactly when
\* there are more than 10 distinct prescriber identities, and then the last row
\* is '기타'; with 10 or fewer identities it is the sorted aggregate unchanged,
\* one row per identity, no row synthesised.
Thm_C3 ==
    df_counts_final.bound =>
        /\ Len(Final) <= 11
        /\ (Len(Final) = 11) <=> (Cardinality(DistinctIds) > 10)
        /\ Cardinality(DistinctIds) > 10 => Final[11].cheobanguisa = GITA
        /\ Cardinality(DistinctIds) <= 10 =>
              /\ \E tie \in TieOrders : Final = DfCounts(df, tie)
              /\ Len(Final) = Cardinality(DistinctIds)
              /\ \A i \in 1..Len(Final) : Final[i].cheobanguisa \in DistinctIds

Wit_C3 ==
    /\ df_counts_final.bound
    /\ Cardinality(DistinctIds) = 12
    /\ Len(Final) = 11
    /\ Final[11].cheobanguisa = GITA
    /\ Final[11].jojegeonsu = 3

\* the rows that precede the synthesised '기타' row
TopRows == 1..(IF Len(Final) > 10 THEN 10 ELSE Len(Final))

\* C4 as stated: adjacent rows other than '기타' rows have strictly
\* decreasing counts.
CE_C4 ==
    df_counts_final.bound =>
        \A i \in 1..(Len(Final) - 1) :
            (Final[i].cheobanguisa # GITA /\ Final[i + 1].cheobanguisa # GITA)
                => Final[i].jojegeonsu > Final[i + 1].jojegeonsu

\* C4 amended: the rows that precede the synthesised '기타' row are in
\* non-increasing order of count (equal counts may be adjacent).
Thm_C4 ==
    df_counts_final.bound =>
        \A i, j \in TopRows : i < j => Final[i].jojegeonsu >= Final[j].jojegeonsu

Wit_C4 ==
    /\ df_counts_final.bound
    /\ \E i \in TopRows : i + 1 \in TopRows /\ Final[i].jojegeonsu = Final[i + 1].jojegeonsu
    /\ \E i \in TopRows : i + 1 \in TopRows /\ Final[i].jojegeonsu > Final[i + 1].jojegeonsu
    /\ \E i \in TopRows : i + 1 \in TopRows /\ Final[i].cheobanguisa < Final[i + 1].cheobanguisa

\* the header row of the file has no label that normalises to '처방의사'
NoDocColumn ==
    /\ Len(file.lines) >= 2
    /\ \A i \in 1..Len(file.lines[2]) : NormalizeLabel(file.lines[2][i]) # COL_CHEOBANGUISA

\* C5: when no column is named '처방의사' after the clean-up of the labels, the
\* run reports the schema error and returns: no aggregate, no table shown, no
\* chart, no PDF or CSV step.
Thm_C5 ==
    (Cleaned /\ NoDocColumn) =>
        /\ pc = "returned"
        /\ errors = <<"no_cheobanguisa_column">>
        /\ ~df_counts_final.bound /\ ~displayed /\ ~charts
        /\ stages = <<>> /\ pdf_bytes = "unset" /\ ~download
        /\ ~saved /\ written = <<>> /\ unhandled = "none"

Wit_C5 ==
    /\ Cleaned /\ NoDocColumn
    /\ pc = "returned"
    /\ Len(df.rows) > 0
    /\ \E i \in 1..Len(file.lines[2]) :
          /\ file.lines[2][i] # COL_CHEOBANGUISA
          /\ "cheo" \in Range(file.lines[2][i])

\* C6: when no row survives normalisation, no aggregate table is produced,
\* shown or charted (an error is reported instead).
CE_C6 ==
    (Cleaned /\ Len(df.rows) = 0) => (~df_counts_final.bound /\ ~displayed /\ ~charts)

\* C7: the read is tried with utf-8-sig, then at most once more with euc-kr, and
\* every failed read ends in a reported error and a return, never in an
\* exception that leaves main().
CE_C7 ==
    /\ reads \in {<<>>, <<"utf-8-sig">>, <<"utf-8-sig", "euc-kr">>}
    /\ (pc \in {"returned", "crashed"} /\ ~df.bound) =>
          /\ pc = "returned"
          /\ unhandled = "none"
          /\ errors = <<"csv_read_failed">>

\* the messages of create_pdf_with_charts in errors
StageErrors == {m \in Range(errors) : m \in {"bar_png_failed", "pie_png_failed", "pdf_failed"}}

\* what C8 says of every export but the error message
StagedExport ==
    /\ \E n \in 0..4 : stages = SubSeq(Stages, 1, n)
    /\ failed = "none" => StageErrors = {}
    /\ failed # "none" =>
          /\ stages # <<>> /\ stages[Len(stages)] = failed
          /\ pdf_bytes = "None"
          /\ ~download
    /\ pdf_bytes = "bytes" => (stages = Stages /\ failed = "none")
    /\ download => pdf_bytes = "bytes"

\* C8 as stated: the stages run in order, at most once each, a failure ends the
\* export without bytes or download, and the reported error tells which of the
\* four stages failed.
CE_C8 ==
    /\ StagedExport
    /\ failed # "none" =>
          \E m \in StageErrors :
              /\ StageErrors = {m}
              /\ {s \in Range(Stages) : ExceptMessage[s] = m} = {failed}

\* C8 amended: as stated, but the reported error tells which try block failed:
\* the bar rasterisation, the pie rasterisation, or the PDF generation (assemble
\* and serialize report the same error).
Thm_C8 ==
    /\ StagedExport
    /\ failed = "rasterize-bar" => StageErrors = {"bar_png_failed"}
    /\ failed = "rasterize-pie" => StageErrors = {"pie_png_failed"}
    /\ failed \in {"assemble", "serialize"} => StageErrors = {"pdf_failed"}

Wit_C8 ==
    /\ failed = "serialize"
    /\ stages = Stages
    /\ pdf_bytes = "None"
    /\ errors = <<"pdf_failed", "pdf_generation_failed">>
    /\ pc = "csv"

\* C9: once create_pdf_with_charts has returned, neither temporary image file
\* exists.
CE_C9 ==
    (stages # <<>> /\ pc \in {"pdf_returned", "csv", "done", "crashed"}) => fs = {}

\* C10: the CSV save never ends in an exception that leaves main(): it ends
\* in a reported error or a reported success.
CE_C10 ==
    df_counts_final.bound =>
        /\ unhandled = "none"
        /\ pc # "crashed"
        /\ saved <=> written # <<>>

====
